---- MODULE Spec2Model ----
(***************************************************************************)
(* Model of core/src/qrcode/QRDecoder.cpp: the segmented bit-stream        *)
(* decoder (DecodeBitStream and its per-mode segment decoders) and the     *)
(* top-level driver Decoder::Decode with its mirror retry.                 *)
(*                                                                         *)
(* A byte buffer is modelled as the sequence of its bits, most significant *)
(* bit of each byte first; a BitSource is that buffer plus a bit offset.   *)
(* Text is modelled as the sequence of the chunks appended to it, each     *)
(* chunk carrying the character set it was converted under.                *)
(*                                                                         *)
(* SpecBits runs DecodeBitStream alone, one loop iteration per step; Spec  *)
(* runs Decoder::Decode, with each DoDecode as one step.                   *)
(***************************************************************************)
EXTENDS Integers, Sequences, FiniteSets, TLC

\* Number of pieces (segments, or fragments of segments) a generated
\* bit stream is assembled from.
MaxSegs == 2

\* Side length of the window of data modules of the symbol that is modelled.
Dim == 2

NoError == "NoError"
FormatError == "FormatError"
ChecksumError == "ChecksumError"
\* An exception that has left the function (no catch clause took it).
Exception == "Exception"
\* The call has not returned yet.
Running == "Running"

StatusIsOK(status) == status = NoError
StatusIsError(status) == status # NoError

Unknown == "Unknown"

\* ------------------------------------------------------------------------
\* BitSource: MSB-first reader over the byte buffer.

available(bytes, offset) == Len(bytes) - offset

RECURSIVE BitsValue(_, _, _)
BitsValue(bytes, offset, n) ==
    IF n = 0 THEN 0
    ELSE 2 * BitsValue(bytes, offset, n - 1) + bytes[offset + n]

\* readBits(n) returns BitsValue and advances by n when CanRead, and throws
\* otherwise.
CanRead(bytes, offset, n) ==
    n >= 1 /\ n <= 32 /\ n <= available(bytes, offset)

\* ------------------------------------------------------------------------
\* DecodeMode

TERMINATOR == "TERMINATOR"
NUMERIC == "NUMERIC"
ALPHANUMERIC == "ALPHANUMERIC"
STRUCTURED_APPEND == "STRUCTURED_APPEND"
BYTE == "BYTE"
FNC1_FIRST_POSITION == "FNC1_FIRST_POSITION"
ECI == "ECI"
KANJI == "KANJI"
FNC1_SECOND_POSITION == "FNC1_SECOND_POSITION"
HANZI == "HANZI"
\* No mode: ModeForBits throws on these indicator values.
INVALID == "INVALID"

ModeForBits(v) ==
    CASE v = 0 -> TERMINATOR
      [] v = 1 -> NUMERIC
      [] v = 2 -> ALPHANUMERIC
      [] v = 3 -> STRUCTURED_APPEND
      [] v = 4 -> BYTE
      [] v = 5 -> FNC1_FIRST_POSITION
      [] v = 7 -> ECI
      [] v = 8 -> KANJI
      [] v = 9 -> FNC1_SECOND_POSITION
      [] v = 13 -> HANZI
      [] OTHER -> INVALID

CharacterCountBits(mode, version) ==
    LET i == IF version <= 9 THEN 1 ELSE IF version <= 26 THEN 2 ELSE 3
    IN  CASE mode = NUMERIC -> <<10, 12, 14>>[i]
          [] mode = ALPHANUMERIC -> <<9, 11, 13>>[i]
          [] mode = BYTE -> <<8, 16, 16>>[i]
          [] mode = KANJI -> <<8, 10, 12>>[i]
          [] mode = HANZI -> <<8, 10, 12>>[i]
          [] OTHER -> 0

\* ------------------------------------------------------------------------
\* Character-set service (CharacterSetECI, TextDecoder)

CharsetFromValue(value) ==
    CASE value = 3 -> "ISO8859_1"
      [] value = 20 -> "Shift_JIS"
      [] value = 26 -> "UTF8"
      [] OTHER -> Unknown

CharsetFromName(name) ==
    CASE name = "UTF-8" -> "UTF8"
      [] name = "Shift_JIS" -> "Shift_JIS"
      [] OTHER -> Unknown

\* The guesser is a function of the bytes alone.
GuessEncoding(readBytes) ==
    IF \E i \in 1..Len(readBytes) : readBytes[i] >= 128
    THEN "Shift_JIS" ELSE "ISO8859_1"

\* What TextDecoder::Append / AppendLatin1 add to the text: the bytes and the
\* character set they are converted under.
Chunk(charset, buffer) == [cs |-> charset, b |-> buffer]

\* ------------------------------------------------------------------------
\* Outcomes of a segment decoder: a returned status, or a thrown exception.

Returned(status, offset, text, segs) ==
    [thrown |-> FALSE, status |-> status, offset |-> offset,
     text |-> text, segs |-> segs]

Failed(status) == Returned(status, 0, <<>>, <<>>)

Thrown == [thrown |-> TRUE, status |-> Exception, offset |-> 0,
           text |-> <<>>, segs |-> <<>>]

\* ------------------------------------------------------------------------
\* DecodeHanziSegment

RECURSIVE HanziLoop(_, _, _, _)
HanziLoop(bytes, offset, count, buffer) ==
    IF count > 0 THEN
        LET twoBytes == BitsValue(bytes, offset, 13)
            assembled == (twoBytes \div 96) * 256 + (twoBytes % 96)
            assembledTwoBytes == IF assembled < 959 THEN assembled + 41377
                                 ELSE assembled + 42657
        IN  HanziLoop(bytes, offset + 13, count - 1,
                      buffer \o << (assembledTwoBytes \div 256) % 256,
                                   assembledTwoBytes % 256 >>)
    ELSE buffer

DecodeHanziSegment(bytes, offset, count) ==
    IF count * 13 > available(bytes, offset) THEN Failed(FormatError)
    ELSE Returned(NoError, offset + 13 * count,
                  << Chunk("GB2312", HanziLoop(bytes, offset, count, <<>>)) >>,
                  <<>>)

\* ------------------------------------------------------------------------
\* DecodeKanjiSegment

RECURSIVE KanjiLoop(_, _, _, _)
KanjiLoop(bytes, offset, count, buffer) ==
    IF count > 0 THEN
        LET twoBytes == BitsValue(bytes, offset, 13)
            assembled == (twoBytes \div 192) * 256 + (twoBytes % 192)
            assembledTwoBytes == IF assembled < 7936 THEN assembled + 33088
                                 ELSE assembled + 49472
        IN  KanjiLoop(bytes, offset + 13, count - 1,
                      buffer \o << (assembledTwoBytes \div 256) % 256,
                                   assembledTwoBytes % 256 >>)
    ELSE buffer

DecodeKanjiSegment(bytes, offset, count) ==
    IF count * 13 > available(bytes, offset) THEN Failed(FormatError)
    ELSE Returned(NoError, offset + 13 * count,
                  << Chunk("Shift_JIS", KanjiLoop(bytes, offset, count, <<>>)) >>,
                  <<>>)

\* ------------------------------------------------------------------------
\* DecodeByteSegment

\* ByteCharset with the hint consulted before the charset in force.
ByteCharsetHintFirst(currentCharset, hintedCharset, readBytes) ==
    LET hinted == IF hintedCharset # "" THEN CharsetFromName(hintedCharset)
                  ELSE Unknown
    IN  IF hinted # Unknown THEN hinted
        ELSE IF currentCharset # Unknown THEN currentCharset
        ELSE GuessEncoding(readBytes)

\* The character set the bytes are converted under; currentCharset is the
\* function's by-value parameter.
ByteCharset(currentCharset, hintedCharset, readBytes) ==
    IF currentCharset = Unknown THEN
        LET hinted == IF hintedCharset # "" THEN CharsetFromName(hintedCharset)
                      ELSE currentCharset
        IN  IF hinted = Unknown THEN GuessEncoding(readBytes) ELSE hinted
    ELSE currentCharset

DecodeByteSegment(bytes, offset, count, currentCharset, hintedCharset) ==
    IF 8 * count > available(bytes, offset) THEN Failed(FormatError)
    ELSE
    LET readBytes == [i \in 1..count |-> BitsValue(bytes, offset + 8 * (i - 1), 8)]
    IN  Returned(NoError, offset + 8 * count,
                 << Chunk(ByteCharset(currentCharset, hintedCharset, readBytes),
                          readBytes) >>,
                 << readBytes >>)

\* ------------------------------------------------------------------------
\* ToAlphaNumericChar: the character (its Latin-1 code) of a table index;
\* the function throws when AlphaNumericInRange fails.

ALPHANUMERIC_CHARS ==
    << 48, 49, 50, 51, 52, 53, 54, 55, 56, 57, 65, 66,
       67, 68, 69, 70, 71, 72, 73, 74, 75, 76, 77, 78,
       79, 80, 81, 82, 83, 84, 85, 86, 87, 88, 89, 90,
       32, 36, 37, 42, 43, 45, 46, 47, 58 >>

AlphaNumericInRange(value) == ~(value < 0 \/ value >= Len(ALPHANUMERIC_CHARS))

ToAlphaNumericChar(value) == ALPHANUMERIC_CHARS[value + 1]

\* '%' and the FNC1 separator GS (0x1D).
Percent == 37
GS == 29

\* ------------------------------------------------------------------------
\* DecodeAlphanumericSegment

\* The two reading steps: pairs of characters, then the single one left.
RECURSIVE AlphanumericRead(_, _, _, _)
AlphanumericRead(bytes, offset, count, buffer) ==
    IF count > 1 THEN
        IF available(bytes, offset) < 11 THEN Failed(FormatError)
        ELSE LET nextTwoCharsBits == BitsValue(bytes, offset, 11) IN
             IF ~AlphaNumericInRange(nextTwoCharsBits \div 45) THEN Thrown
             ELSE AlphanumericRead(bytes, offset + 11, count - 2,
                      buffer \o << ToAlphaNumericChar(nextTwoCharsBits \div 45),
                                   ToAlphaNumericChar(nextTwoCharsBits % 45) >>)
    ELSE IF count = 1 THEN
        IF available(bytes, offset) < 6 THEN Failed(FormatError)
        ELSE IF ~AlphaNumericInRange(BitsValue(bytes, offset, 6)) THEN Thrown
        ELSE Returned(NoError, offset + 6,
                      buffer \o << ToAlphaNumericChar(BitsValue(bytes, offset, 6)) >>,
                      <<>>)
    ELSE Returned(NoError, offset, buffer, <<>>)

\* The FNC1 loop over the buffer, from (1-based) index i on.  erase(i + 1)
\* with one argument removes everything from that position to the end.
RECURSIVE Fnc1Massage(_, _)
Fnc1Massage(buffer, i) ==
    IF i > Len(buffer) THEN buffer
    ELSE IF buffer[i] = Percent THEN
        IF i < Len(buffer) /\ buffer[i + 1] = Percent
        THEN Fnc1Massage(SubSeq(buffer, 1, i), i + 1)
        ELSE Fnc1Massage([buffer EXCEPT ![i] = GS], i + 1)
    ELSE Fnc1Massage(buffer, i + 1)

DecodeAlphanumericSegment(bytes, offset, count, fc1InEffect) ==
    LET r == AlphanumericRead(bytes, offset, count, <<>>) IN
    IF r.thrown \/ StatusIsError(r.status) THEN r
    ELSE Returned(NoError, r.offset,
                  << Chunk("Latin1", IF fc1InEffect THEN Fnc1Massage(r.text, 1)
                                     ELSE r.text) >>,
                  <<>>)

\* ------------------------------------------------------------------------
\* DecodeNumericSegment

RECURSIVE NumericRead(_, _, _, _)
NumericRead(bytes, offset, count, buffer) ==
    IF count >= 3 THEN
        IF available(bytes, offset) < 10 THEN Failed(FormatError)
        ELSE LET threeDigitsBits == BitsValue(bytes, offset, 10) IN
             IF threeDigitsBits >= 1000 THEN Failed(FormatError)
             ELSE NumericRead(bytes, offset + 10, count - 3,
                      buffer \o << ToAlphaNumericChar(threeDigitsBits \div 100),
                                   ToAlphaNumericChar((threeDigitsBits \div 10) % 10),
                                   ToAlphaNumericChar(threeDigitsBits % 10) >>)
    ELSE IF count = 2 THEN
        IF available(bytes, offset) < 7 THEN Failed(FormatError)
        ELSE LET twoDigitsBits == BitsValue(bytes, offset, 7) IN
             IF twoDigitsBits >= 100 THEN Failed(FormatError)
             ELSE Returned(NoError, offset + 7,
                      buffer \o << ToAlphaNumericChar(twoDigitsBits \div 10),
                                   ToAlphaNumericChar(twoDigitsBits % 10) >>,
                      <<>>)
    ELSE IF count = 1 THEN
        IF available(bytes, offset) < 4 THEN Failed(FormatError)
        ELSE LET digitBits == BitsValue(bytes, offset, 4) IN
             IF digitBits >= 10 THEN Failed(FormatError)
             ELSE Returned(NoError, offset + 4,
                      buffer \o << ToAlphaNumericChar(digitBits) >>, <<>>)
    ELSE Returned(NoError, offset, buffer, <<>>)

DecodeNumericSegment(bytes, offset, count) ==
    LET r == NumericRead(bytes, offset, count, <<>>) IN
    IF StatusIsError(r.status) THEN r
    ELSE Returned(NoError, r.offset, << Chunk("Latin1", r.text) >>, <<>>)

\* ------------------------------------------------------------------------
\* ParseECIValue: [thrown, status, offset, value]

ECIValue(status, offset, value) ==
    [thrown |-> FALSE, status |-> status, offset |-> offset, value |-> value]

ParseECIValue(bytes, offset) ==
    IF ~CanRead(bytes, offset, 8)
    THEN [thrown |-> TRUE, status |-> Exception, offset |-> offset, value |-> 0]
    ELSE
    LET firstByte == BitsValue(bytes, offset, 8) IN
    IF firstByte < 128 THEN ECIValue(NoError, offset + 8, firstByte % 128)
    ELSE IF firstByte \div 64 = 2 THEN
        IF ~CanRead(bytes, offset + 8, 8)
        THEN [thrown |-> TRUE, status |-> Exception, offset |-> offset, value |-> 0]
        ELSE ECIValue(NoError, offset + 16,
                      (firstByte % 64) * 256 + BitsValue(bytes, offset + 8, 8))
    ELSE IF firstByte \div 32 = 6 THEN
        IF ~CanRead(bytes, offset + 8, 16)
        THEN [thrown |-> TRUE, status |-> Exception, offset |-> offset, value |-> 0]
        ELSE ECIValue(NoError, offset + 24,
                      (firstByte % 32) * 65536 + BitsValue(bytes, offset + 8, 16))
    ELSE ECIValue(FormatError, offset + 8, 0)
\* ------------------------------------------------------------------------
\* DecodeBitStream.  Its locals are the record ds:
\*   bytes, offset          the BitSource
\*   result, byteSegments   the text chunks and the raw BYTE-mode buffers
\*   symbolSequence, parityData, currentCharset, fc1InEffect, mode
\*   status                 Running inside the loop, then the returned status
\*   log                    history of the loop: one entry per iteration, with
\*                          the mode taken, the offset its indicator was read
\*                          at, whether an indicator was read at all, and the
\*                          number of text chunks after the iteration

GB2312_SUBSET == 1

BitStreamStart(bytes) ==
    [bytes |-> bytes, offset |-> 0, result |-> <<>>, byteSegments |-> <<>>,
     symbolSequence |-> -1, parityData |-> -1,
     currentCharset |-> Unknown, fc1InEffect |-> FALSE, mode |-> INVALID,
     status |-> Running, log |-> <<>>]

\* The mode of the iteration that starts in ds: fewer than 4 bits left count
\* as a terminator, without a read.
ModeRead(ds) == available(ds.bytes, ds.offset) >= 4

NextMode(ds) ==
    IF available(ds.bytes, ds.offset) < 4 THEN TERMINATOR
    ELSE ModeForBits(BitsValue(ds.bytes, ds.offset, 4))

\* The offset after the mode indicator.
AfterMode(ds) == IF ModeRead(ds) THEN ds.offset + 4 ELSE ds.offset

Throw(ds) == [ds EXCEPT !.status = Exception]

Return(ds, status) == [ds EXCEPT !.status = status]

\* A segment decoder's outcome r taken into the locals.
AfterSegment(ds, r) ==
    IF r.thrown THEN Throw(ds)
    ELSE IF StatusIsError(r.status) THEN Return(ds, r.status)
    ELSE [ds EXCEPT !.offset = r.offset,
                    !.result = ds.result \o r.text,
                    !.byteSegments = ds.byteSegments \o r.segs]

Fnc1Segment(ds) ==
    [ds EXCEPT !.offset = AfterMode(ds), !.fc1InEffect = TRUE]

\* StructuredAppendSegment that keeps the header of the first segment.
StructuredAppendSegmentKeepsFirst(ds) ==
    LET off == AfterMode(ds) IN
    IF available(ds.bytes, off) < 16 THEN Return(ds, FormatError)
    ELSE IF ds.symbolSequence # -1 THEN [ds EXCEPT !.offset = off + 16]
    ELSE [ds EXCEPT !.symbolSequence = BitsValue(ds.bytes, off, 8),
                    !.parityData = BitsValue(ds.bytes, off + 8, 8),
                    !.offset = off + 16]

StructuredAppendSegment(ds) ==
    LET off == AfterMode(ds) IN
    IF available(ds.bytes, off) < 16 THEN Return(ds, FormatError)
    ELSE [ds EXCEPT !.symbolSequence = BitsValue(ds.bytes, off, 8),
                    !.parityData = BitsValue(ds.bytes, off + 8, 8),
                    !.offset = off + 16]

ECISegment(ds) ==
    LET r == ParseECIValue(ds.bytes, AfterMode(ds)) IN
    IF r.thrown THEN Throw(ds)
    ELSE IF StatusIsError(r.status) THEN Return(ds, r.status)
    ELSE IF CharsetFromValue(r.value) = Unknown
         THEN Return([ds EXCEPT !.currentCharset = Unknown], FormatError)
    ELSE [ds EXCEPT !.currentCharset = CharsetFromValue(r.value),
                    !.offset = r.offset]

HanziSegment(ds, version) ==
    LET off == AfterMode(ds)
        ccb == CharacterCountBits(HANZI, version)
    IN  IF ~CanRead(ds.bytes, off, 4) THEN Throw(ds)
        ELSE IF ~CanRead(ds.bytes, off + 4, ccb) THEN Throw(ds)
        ELSE LET subset == BitsValue(ds.bytes, off, 4)
                 countHanzi == BitsValue(ds.bytes, off + 4, ccb)
             IN  IF subset = GB2312_SUBSET
                 THEN AfterSegment(ds, DecodeHanziSegment(ds.bytes, off + 4 + ccb,
                                                          countHanzi))
                 ELSE [ds EXCEPT !.offset = off + 4 + ccb]

\* The "normal" modes, which start with a character count.
CountedSegment(ds, mode, version, hintedCharset) ==
    LET off == AfterMode(ds)
        ccb == CharacterCountBits(mode, version)
    IN  IF ~CanRead(ds.bytes, off, ccb) THEN Throw(ds)
        ELSE LET count == BitsValue(ds.bytes, off, ccb)
                 body == off + ccb
             IN  AfterSegment(ds,
                   CASE mode = NUMERIC ->
                          DecodeNumericSegment(ds.bytes, body, count)
                     [] mode = ALPHANUMERIC ->
                          DecodeAlphanumericSegment(ds.bytes, body, count,
                                                    ds.fc1InEffect)
                     [] mode = BYTE ->
                          DecodeByteSegment(ds.bytes, body, count,
                                            ds.currentCharset, hintedCharset)
                     [] mode = KANJI ->
                          DecodeKanjiSegment(ds.bytes, body, count)
                     [] OTHER -> Failed(FormatError))

\* TerminatorSegment with a loop that runs while bits are available: a
\* terminator that was read does not end it.
TerminatorSegmentContinues(ds) ==
    IF ModeRead(ds) THEN [ds EXCEPT !.offset = AfterMode(ds)]
    ELSE Return(ds, NoError)

\* mode == TERMINATOR: nothing is decoded and the loop condition fails.
TerminatorSegment(ds) ==
    Return([ds EXCEPT !.offset = AfterMode(ds)], NoError)

\* One iteration of the do-while loop, inside the try block.
LoopBody(ds, version, hintedCharset) ==
    LET mode == NextMode(ds) IN
    CASE mode = TERMINATOR -> TerminatorSegment(ds)
      [] mode = INVALID -> Throw(ds)
      [] mode \in {FNC1_FIRST_POSITION, FNC1_SECOND_POSITION} -> Fnc1Segment(ds)
      [] mode = STRUCTURED_APPEND -> StructuredAppendSegment(ds)
      [] mode = ECI -> ECISegment(ds)
      [] mode = HANZI -> HanziSegment(ds, version)
      [] OTHER -> CountedSegment(ds, mode, version, hintedCharset)

\* No catch clause: the exception leaves the function.
CatchExceptionMissing(ds) == ds

\* catch (const std::exception&): the exception becomes FormatError.
CatchException(ds) ==
    IF ds.status = Exception THEN Return(ds, FormatError) ELSE ds

\* One iteration with the catch clause around it, and the history kept.
LoopIteration(ds, version, hintedCharset) ==
    LET after == CatchException(LoopBody(ds, version, hintedCharset)) IN
    [after EXCEPT !.mode = NextMode(ds),
                  !.log = Append(ds.log,
                                 [mode |-> NextMode(ds), at |-> ds.offset,
                                  read |-> ModeRead(ds),
                                  chunks |-> Len(after.result)])]

\* The whole loop, from the locals ds on.
RECURSIVE RunLoop(_, _, _)
RunLoop(ds, version, hintedCharset) ==
    IF ds.status # Running THEN ds
    ELSE RunLoop(LoopIteration(ds, version, hintedCharset), version, hintedCharset)

\* DecoderResult: the fields and the set of setters that have been called.
FreshResult ==
    [rawBytes |-> <<>>, text |-> <<>>, byteSegments |-> <<>>, ecLevel |-> "",
     structuredAppendSequenceNumber |-> -1, structuredAppendParity |-> -1,
     mirrored |-> FALSE, written |-> {}]

\* The writes that follow the loop.
SetResult(decodeResult, ds, ecLevel) ==
    [decodeResult EXCEPT
        !.rawBytes = ds.bytes,
        !.text = ds.result,
        !.byteSegments = ds.byteSegments,
        !.ecLevel = ecLevel,
        !.structuredAppendSequenceNumber = ds.symbolSequence,
        !.structuredAppendParity = ds.parityData,
        !.written = decodeResult.written \cup
            {"rawBytes", "text", "byteSegments", "ecLevel",
             "structuredAppendSequenceNumber", "structuredAppendParity"}]

\* ResultAfter with the writes made whatever the loop's status.
ResultAfterAlways(decodeResult, ds, ecLevel) ==
    SetResult(decodeResult, ds, ecLevel)

\* The result as the function leaves it once the loop has ended in ds.
ResultAfter(decodeResult, ds, ecLevel) ==
    IF ds.status = NoError THEN SetResult(decodeResult, ds, ecLevel)
    ELSE decodeResult

\* The whole function: [status, result].
DecodeBitStream(bytes, version, ecLevel, hintedCharset, decodeResult) ==
    LET ds == RunLoop(BitStreamStart(bytes), version, hintedCharset) IN
    [status |-> ds.status, result |-> ResultAfter(decodeResult, ds, ecLevel)]
\* ------------------------------------------------------------------------
\* The byte buffers the decoder is run on.

\* n bits of v, most significant first.
Bin(v, n) == [i \in 1..n |-> (v \div (2 ^ (n - i))) % 2]

\* The bits of a sequence of <<value, width>> fields.
RECURSIVE Enc(_)
Enc(fields) ==
    IF fields = <<>> THEN <<>>
    ELSE Bin(fields[1][1], fields[1][2]) \o Enc(Tail(fields))

\* Segments and fragments of segments, with the count widths of versions 1-9:
\* well-formed ones, ones with an invalid value, and ones cut short.
Pieces ==
    { Enc(<< <<0, 4>> >>),                                  \* terminator
      Enc(<< <<1, 4>>, <<1, 10>>, <<7, 4>> >>),             \* numeric "7"
      Enc(<< <<1, 4>>, <<5, 10>>, <<123, 10>>, <<45, 7>> >>), \* numeric "12345"
      Enc(<< <<1, 4>>, <<1, 10>>, <<12, 4>> >>),            \* numeric, digit 12
      Enc(<< <<1, 4>>, <<3, 10>> >>),                       \* numeric, no payload
      Enc(<< <<1, 4>> >>),                                  \* numeric, no count
      Enc(<< <<2, 4>>, <<3, 9>>, <<1748, 11>>, <<10, 6>> >>), \* alphanumeric "%%A"
      Enc(<< <<2, 4>>, <<2, 9>>, <<488, 11>> >>),           \* alphanumeric "A%"
      Enc(<< <<2, 4>>, <<1, 9>>, <<45, 6>> >>),             \* alphanumeric, index 45
      Enc(<< <<2, 4>>, <<2, 9>> >>),                        \* alphanumeric, no payload
      Enc(<< <<4, 4>>, <<1, 8>>, <<65, 8>> >>),             \* byte "A"
      Enc(<< <<4, 4>>, <<1, 8>>, <<147, 8>> >>),            \* byte 0x93
      Enc(<< <<4, 4>>, <<0, 8>> >>),                        \* byte, count 0
      Enc(<< <<4, 4>>, <<2, 8>>, <<66, 8>> >>),             \* byte, 1 of 2 bytes
      Enc(<< <<8, 4>>, <<1, 8>>, <<3487, 13>> >>),          \* kanji
      Enc(<< <<8, 4>>, <<2, 8>>, <<3487, 13>> >>),          \* kanji, 1 of 2
      Enc(<< <<13, 4>>, <<1, 4>>, <<1, 8>>, <<1000, 13>> >>), \* hanzi, GB2312
      Enc(<< <<13, 4>>, <<2, 4>>, <<1, 8>> >>),             \* hanzi, other subset
      Enc(<< <<13, 4>>, <<1, 4>> >>),                       \* hanzi, no count
      Enc(<< <<7, 4>>, <<26, 8>> >>),                       \* ECI 26, one byte
      Enc(<< <<7, 4>>, <<128, 8>>, <<20, 8>> >>),           \* ECI 20, two bytes
      Enc(<< <<7, 4>>, <<192, 8>>, <<3, 16>> >>),           \* ECI 3, three bytes
      Enc(<< <<7, 4>>, <<224, 8>> >>),                      \* ECI, bad first byte
      Enc(<< <<7, 4>>, <<99, 8>> >>),                       \* ECI 99, no charset
      Enc(<< <<7, 4>>, <<128, 8>> >>),                      \* ECI, 1 of 2 bytes
      Enc(<< <<5, 4>> >>),                                  \* FNC1, first position
      Enc(<< <<9, 4>>, <<65, 8>> >>),                       \* FNC1, second position
      Enc(<< <<3, 4>>, <<1, 8>>, <<165, 8>> >>),            \* structured append
      Enc(<< <<3, 4>>, <<18, 8>>, <<90, 8>> >>),            \* structured append
      Enc(<< <<3, 4>>, <<1, 8>> >>),                        \* structured append, short
      Enc(<< <<6, 4>> >>) }                                 \* no such mode

\* The concatenations of at most n pieces.
RECURSIVE Concats(_)
Concats(n) ==
    IF n = 0 THEN { <<>> }
    ELSE Concats(n - 1) \cup { s \o p : s \in Concats(n - 1), p \in Pieces }

\* A buffer holds whole bytes: the last byte is filled up with the bit b.
PadToByte(s, b) == s \o [i \in 1..((8 - (Len(s) % 8)) % 8) |-> b]

StreamsOf(n) == { PadToByte(s, b) : s \in Concats(n), b \in {0, 1} }

Streams == StreamsOf(MaxSegs)

Versions == {1, 10}
Hints == {"", "UTF-8", "latin"}
ECLevels == {"L", "H"}
DataMasks == 0..7
FormatInfos == [errorCorrectionLevel : ECLevels, dataMask : DataMasks]

\* ------------------------------------------------------------------------
\* State

VARIABLES
    pc,             \* where the call stands
    bits_,          \* Decode's input matrix
    bits,           \* Decode's working copy
    version,        \* the Version (its number), or NullVersion
    formatInfo,
    status,
    firstStatus,    \* history: the status of the non-mirrored attempt
    hintedCharset,
    result,         \* the caller's DecoderResult
    ds              \* DecodeBitStream's locals

vars == << pc, bits_, bits, version, formatInfo, status, firstStatus,
           hintedCharset, result, ds >>

NullVersion == 0

Window == 9..(9 + Dim - 1)
Modules == Window \X Window
NoMatrix == [p \in Modules |-> 0]

\* ------------------------------------------------------------------------
\* DecodeBitStream run on its own, one loop iteration per step, on every
\* buffer of Streams, for a symbol of version 1 and level L.

InitBits ==
    /\ pc = "DecodeBitStream"
    /\ bits_ = NoMatrix
    /\ bits = NoMatrix
    /\ version = 1
    /\ formatInfo = [errorCorrectionLevel |-> "L", dataMask |-> 0]
    /\ status = Running
    /\ firstStatus = Running
    /\ hintedCharset \in Hints
    /\ result = FreshResult
    /\ \E bytes \in Streams : ds = BitStreamStart(bytes)

\* The iteration that starts in ds, with the writes to the result that follow
\* the loop when this iteration ends it.
Iterate ==
    /\ ds' = LoopIteration(ds, version, hintedCharset)
    /\ result' = ResultAfter(result, ds', formatInfo.errorCorrectionLevel)
    /\ status' = ds'.status
    /\ UNCHANGED << pc, bits_, bits, version, formatInfo, firstStatus, hintedCharset >>

InLoop == pc = "DecodeBitStream" /\ ds.status = Running

TerminatorIteration ==
    /\ InLoop /\ NextMode(ds) = TERMINATOR
    /\ Iterate

NumericIteration ==
    /\ InLoop /\ NextMode(ds) = NUMERIC
    /\ Iterate

AlphanumericIteration ==
    /\ InLoop /\ NextMode(ds) = ALPHANUMERIC
    /\ Iterate

ByteIteration ==
    /\ InLoop /\ NextMode(ds) = BYTE
    /\ Iterate

KanjiIteration ==
    /\ InLoop /\ NextMode(ds) = KANJI
    /\ Iterate

HanziIteration ==
    /\ InLoop /\ NextMode(ds) = HANZI
    /\ Iterate

ECIIteration ==
    /\ InLoop /\ NextMode(ds) = ECI
    /\ Iterate

Fnc1FirstIteration ==
    /\ InLoop /\ NextMode(ds) = FNC1_FIRST_POSITION
    /\ Iterate

Fnc1SecondIteration ==
    /\ InLoop /\ NextMode(ds) = FNC1_SECOND_POSITION
    /\ Iterate

StructuredAppendIteration ==
    /\ InLoop /\ NextMode(ds) = STRUCTURED_APPEND
    /\ Iterate

InvalidModeIteration ==
    /\ InLoop /\ NextMode(ds) = INVALID
    /\ Iterate

NextBits ==
    \/ TerminatorIteration
    \/ NumericIteration
    \/ AlphanumericIteration
    \/ ByteIteration
    \/ KanjiIteration
    \/ HanziIteration
    \/ ECIIteration
    \/ Fnc1FirstIteration
    \/ Fnc1SecondIteration
    \/ StructuredAppendIteration
    \/ InvalidModeIteration

SpecBits == InitBits /\ [][NextBits]_vars
\* ------------------------------------------------------------------------
\* BitMatrix and DataMask.  A matrix maps <<x, y>> (column, row) to 0 or 1.

Mirror(m) == [p \in Modules |-> m[<< p[2], p[1] >>]]

\* The mask predicate at row i, column j.
IsMasked(dataMask, i, j) ==
    CASE dataMask = 0 -> (i + j) % 2 = 0
      [] dataMask = 1 -> i % 2 = 0
      [] dataMask = 2 -> j % 3 = 0
      [] dataMask = 3 -> (i + j) % 3 = 0
      [] dataMask = 4 -> ((i \div 2) + (j \div 3)) % 2 = 0
      [] dataMask = 5 -> ((i * j) % 2) + ((i * j) % 3) = 0
      [] dataMask = 6 -> (((i * j) % 2) + ((i * j) % 3)) % 2 = 0
      [] dataMask = 7 -> (((i + j) % 2) + ((i * j) % 3)) % 2 = 0

UnmaskBitMatrix(dataMask, m) ==
    [p \in Modules |-> IF IsMasked(dataMask, p[2], p[1]) THEN 1 - m[p] ELSE m[p]]

ReMask(bitMatrix, fi) == UnmaskBitMatrix(fi.dataMask, bitMatrix)

\* The symbols Decode is run on: at most one dark module in the window.
InputMatrices ==
    { NoMatrix } \cup { [p \in Modules |-> IF p = d THEN 1 ELSE 0] : d \in Modules }

\* ------------------------------------------------------------------------
\* BitMatrixParser::ParseVersionInfo: [status, version, formatInfo].  On
\* success the version is a Version and the format information is decoded.
\* On failure the two out-parameters hold whatever the parser left in them;
\* Decode declares `version` without a value, so after a parse that returned
\* before writing it the pointer is indeterminate.

ParseVersionInfo ==
    [status : {NoError}, version : Versions, formatInfo : FormatInfos]
    \cup
    [status : {FormatError}, version : {NullVersion} \cup Versions,
     formatInfo : FormatInfos]

\* ------------------------------------------------------------------------
\* DoDecode.  Reading the codewords, splitting them into blocks and the
\* Reed-Solomon correction end in an error or in the data bytes.

DriverStreams ==
    { PadToByte(a \o b, 0) :
        a \in { Enc(<< <<1, 4>>, <<1, 10>>, <<7, 4>> >>),
                Enc(<< <<4, 4>>, <<1, 8>>, <<65, 8>> >>),
                Enc(<< <<3, 4>>, <<1, 8>>, <<165, 8>> >>) },
        b \in { Enc(<< <<0, 4>> >>),
                Enc(<< <<6, 4>> >>),
                Enc(<< <<4, 4>>, <<2, 8>>, <<66, 8>> >>) } }

Codewords ==
    [status : {FormatError, ChecksumError}, bytes : { <<>> }]
    \cup [status : {NoError}, bytes : DriverStreams]

\* [status, result, ds]: ds is DecodeBitStream's locals when it returned.
DoDecode(cw, locals, v, fi, hint, decodeResult) ==
    IF StatusIsError(cw.status)
    THEN [status |-> cw.status, result |-> decodeResult, ds |-> locals]
    ELSE LET end == RunLoop(BitStreamStart(cw.bytes), v, hint) IN
         [status |-> end.status,
          result |-> ResultAfter(decodeResult, end, fi.errorCorrectionLevel),
          ds |-> end]

\* result.setExtra(std::make_shared<DecoderMetadata>(true))
SetExtra(decodeResult) ==
    [decodeResult EXCEPT !.mirrored = TRUE,
                         !.written = decodeResult.written \cup {"extra"}]

\* ------------------------------------------------------------------------
\* Decoder::Decode, in five steps: the non-mirrored parse, the non-mirrored
\* decode, the revert of the matrix, the mirrored parse, the mirrored decode.
\* `version` is declared without a value; NullVersion stands for it until the
\* first parse, which is the only thing that precedes its first use.

Init ==
    /\ pc = "parse"
    /\ bits_ \in InputMatrices
    /\ bits = bits_
    /\ version = NullVersion
    /\ formatInfo = [errorCorrectionLevel |-> "L", dataMask |-> 0]
    /\ status = Running
    /\ firstStatus = Running
    /\ hintedCharset \in Hints
    /\ result = FreshResult
    /\ ds = BitStreamStart(<<>>)

\* status = ParseVersionInfo(bits, false, version, formatInfo)
FirstParse ==
    /\ pc = "parse"
    /\ \E p \in ParseVersionInfo :
        /\ version' = p.version
        /\ formatInfo' = p.formatInfo
        /\ status' = p.status
        /\ firstStatus' = IF StatusIsOK(p.status) THEN firstStatus ELSE p.status
        /\ pc' = IF StatusIsOK(p.status) THEN "decode" ELSE "revert"
    /\ UNCHANGED << bits_, bits, hintedCharset, result, ds >>

\* ReMask, DoDecode, and the return on success
FirstDecode ==
    /\ pc = "decode"
    /\ \E cw \in Codewords :
        LET d == DoDecode(cw, ds, version, formatInfo, hintedCharset, result) IN
        /\ bits' = ReMask(bits, formatInfo)
        /\ status' = d.status
        /\ firstStatus' = d.status
        /\ result' = d.result
        /\ ds' = d.ds
        /\ pc' = IF StatusIsOK(d.status) THEN "done" ELSE "revert"
    /\ UNCHANGED << bits_, version, formatInfo, hintedCharset >>

\* if (version != nullptr) ReMask(bits, formatInfo)
Reverted(bitMatrix, v, fi) ==
    IF v # NullVersion THEN ReMask(bitMatrix, fi) ELSE bitMatrix

Revert ==
    /\ pc = "revert"
    /\ bits' = Reverted(bits, version, formatInfo)
    /\ pc' = "mirroredParse"
    /\ UNCHANGED << bits_, version, formatInfo, status, firstStatus,
                    hintedCharset, result, ds >>

\* status = ParseVersionInfo(bits, true, version, formatInfo)
MirroredParse ==
    /\ pc = "mirroredParse"
    /\ \E p \in ParseVersionInfo :
        /\ version' = p.version
        /\ formatInfo' = p.formatInfo
        /\ status' = p.status
        /\ pc' = IF StatusIsOK(p.status) THEN "mirroredDecode" ELSE "done"
    /\ UNCHANGED << bits_, bits, firstStatus, hintedCharset, result, ds >>

\* MirroredResult without the setExtra call.
MirroredResultNoExtra(st, decodeResult) == decodeResult

\* The result of the mirrored DoDecode as Decode leaves it.
MirroredResult(st, decodeResult) ==
    IF StatusIsOK(st) THEN SetExtra(decodeResult) ELSE decodeResult

\* bits.mirror(), ReMask, DoDecode, setExtra on success, return
MirroredDecode ==
    /\ pc = "mirroredDecode"
    /\ \E cw \in Codewords :
        LET d == DoDecode(cw, ds, version, formatInfo, hintedCharset, result) IN
        /\ bits' = ReMask(Mirror(bits), formatInfo)
        /\ status' = d.status
        /\ result' = MirroredResult(d.status, d.result)
        /\ ds' = d.ds
        /\ pc' = "done"
    /\ UNCHANGED << bits_, version, formatInfo, firstStatus, hintedCharset >>

Next ==
    \/ FirstParse
    \/ FirstDecode
    \/ Revert
    \/ MirroredParse
    \/ MirroredDecode

Spec == Init /\ [][Next]_vars
\* ========================================================================
\* Properties

Errors == {FormatError, ChecksumError}

\* C1: when the non-mirrored attempt fails with E1 and the mirrored attempt
\* fails too, Decode returns E1.
C1_FirstErrorKept ==
    (pc = "done" /\ firstStatus \in Errors /\ StatusIsError(status))
        => status = firstStatus

\* C2: whenever the mirrored ParseVersionInfo is about to be called, the
\* working matrix equals the caller's matrix.
C2_MatrixRestoredBeforeMirroredParse ==
    pc = "mirroredParse" => bits = bits_

\* C3: the mirrored attempt is made only after the non-mirrored one failed;
\* a successful non-mirrored attempt returns at once, with the matrix only
\* unmasked and no extra set; a successful result is marked mirrored exactly
\* when the mirrored attempt produced it.
C3_MirroredOnlyAfterFailure ==
    /\ pc \in {"revert", "mirroredParse", "mirroredDecode"} => firstStatus \in Errors
    /\ (pc = "done" /\ firstStatus = NoError) =>
          /\ status = NoError
          /\ bits = ReMask(bits_, formatInfo)
          /\ "extra" \notin result.written
    /\ (pc = "done" /\ StatusIsOK(status)) =>
          /\ result.mirrored <=> firstStatus \in Errors
          /\ "extra" \in result.written <=> firstStatus \in Errors

\* A decode that succeeded in the mirrored attempt.
C3_Witness ==
    /\ pc = "done" /\ StatusIsOK(status) /\ firstStatus \in Errors
    /\ result.mirrored /\ result.text # <<>>

\* C4: as long as Decode has not succeeded, and when it returns an error, no
\* field of the caller's DecoderResult has been written.
C4_NoPartialResult ==
    (pc # "done" \/ StatusIsError(status)) => result = FreshResult

\* The non-mirrored DecodeBitStream failed after it had decoded text, and the
\* mirrored attempt failed in the Reed-Solomon stage.
C4_Witness ==
    /\ pc = "done" /\ firstStatus = FormatError /\ status = ChecksumError
    /\ ds.status = FormatError /\ ds.result # <<>>

\* ---- the segment loop, seen through its history ----

Log == ds.log

Handled(modes) == { i \in 1..Len(Log) : Log[i].mode \in modes }

\* The offset the iteration after Log[i] started at, or the current one.
NextAt(i) == IF i < Len(Log) THEN Log[i + 1].at ELSE ds.offset

\* Iteration i took a segment to its end.
Completed(i) == i < Len(Log) \/ ds.status \in {Running, NoError}

\* C5: a FNC1_SECOND_POSITION segment advances the bit source by 4 + 8 bits,
\* a FNC1_FIRST_POSITION segment by 4.
C5_Fnc1SecondConsumesIndicator ==
    \A i \in 1..Len(Log) :
        /\ Log[i].mode = FNC1_SECOND_POSITION => NextAt(i) = Log[i].at + 4 + 8
        /\ Log[i].mode = FNC1_FIRST_POSITION => NextAt(i) = Log[i].at + 4

\* The buffer with each "%%" replaced by "%" and each other "%" by GS, left
\* to right.
RECURSIVE Fnc1Expected(_)
Fnc1Expected(buffer) ==
    IF buffer = <<>> THEN <<>>
    ELSE IF buffer[1] = Percent THEN
        IF Len(buffer) >= 2 /\ buffer[2] = Percent
        THEN << Percent >> \o Fnc1Expected(SubSeq(buffer, 3, Len(buffer)))
        ELSE << GS >> \o Fnc1Expected(Tail(buffer))
    ELSE << buffer[1] >> \o Fnc1Expected(Tail(buffer))

\* The characters segment i of mode ALPHANUMERIC decoded, before FNC1 handling.
AlphanumericBuffer(i) ==
    LET ccb == CharacterCountBits(ALPHANUMERIC, version)
        off == Log[i].at + 4
    IN  AlphanumericRead(ds.bytes, off + ccb, BitsValue(ds.bytes, off, ccb), <<>>).text

\* C6: with FNC1 in effect, the text appended for an alphanumeric segment is
\* its buffer with "%%" collapsed and single "%" turned into GS.
C6_Fnc1PercentHandling ==
    \A i \in Handled({ALPHANUMERIC}) :
        (Completed(i) /\ \E j \in Handled({FNC1_FIRST_POSITION, FNC1_SECOND_POSITION}) : j < i)
            => ds.result[Log[i].chunks].b = Fnc1Expected(AlphanumericBuffer(i))

\* The character set in force before iteration i: that of the last ECI
\* segment before it, if any.
ECICharsetBefore(i) ==
    LET E == { j \in Handled({ECI}) : j < i } IN
    IF E = {} THEN Unknown
    ELSE LET last == CHOOSE j \in E : \A k \in E : k <= j
         IN  CharsetFromValue(ParseECIValue(ds.bytes, Log[last].at + 4).value)

ExpectedByteCharset(i) ==
    IF ECICharsetBefore(i) # Unknown THEN ECICharsetBefore(i)
    ELSE IF hintedCharset # "" /\ CharsetFromName(hintedCharset) # Unknown
         THEN CharsetFromName(hintedCharset)
    ELSE GuessEncoding(ds.result[Log[i].chunks].b)

\* C7: a BYTE segment is converted under the charset of the last ECI before
\* it, else the hinted charset if it is known, else the guess for its own
\* bytes; currentCharset changes only at an ECI segment; an ECI without a
\* charset ends the decode with FormatError.
C7_ByteCharset ==
    /\ \A i \in Handled({BYTE}) :
          Completed(i) => ds.result[Log[i].chunks].cs = ExpectedByteCharset(i)
    /\ ds.status \in {Running, NoError} =>
          ds.currentCharset = ECICharsetBefore(Len(Log) + 1)
    /\ \A i \in Handled({ECI}) :
          LET r == ParseECIValue(ds.bytes, Log[i].at + 4) IN
          (~r.thrown /\ StatusIsOK(r.status) /\ CharsetFromValue(r.value) = Unknown)
              => (i = Len(Log) /\ ds.status = FormatError)

\* An ECI segment and then a BYTE segment, decoded without error under a
\* hint that names another charset than the ECI.
C7_Witness ==
    /\ pc = "DecodeBitStream" /\ ds.status = NoError /\ hintedCharset = "UTF-8"
    /\ \E i \in Handled({ECI}) : \E j \in Handled({BYTE}) :
          i < j /\ ds.result[Log[j].chunks].cs = "Shift_JIS"

\* The bits a numeric / alphanumeric payload of count characters takes.
NumericBits(count) ==
    10 * (count \div 3) + (IF count % 3 = 2 THEN 7 ELSE IF count % 3 = 1 THEN 4 ELSE 0)

AlphanumericBits(count) == 11 * (count \div 2) + 6 * (count % 2)

\* Iteration i read a mode indicator whose segment (header and payload)
\* needs more bits than the buffer holds after the indicator.
CutShort(i) ==
    LET m == Log[i].mode
        off == Log[i].at + 4
        left == Len(ds.bytes) - off
        ccb == CharacterCountBits(m, version)
    IN  /\ Log[i].read
        /\ CASE m = STRUCTURED_APPEND -> left < 16
             [] m = ECI ->
                    \/ left < 8
                    \/ BitsValue(ds.bytes, off, 8) \div 64 = 2 /\ left < 16
                    \/ BitsValue(ds.bytes, off, 8) \div 32 = 6 /\ left < 24
             [] m = HANZI ->
                    \/ left < 4 + ccb
                    \/ /\ BitsValue(ds.bytes, off, 4) = GB2312_SUBSET
                       /\ left < 4 + ccb + 13 * BitsValue(ds.bytes, off + 4, ccb)
             [] m = NUMERIC ->
                    left < ccb \/ left < ccb + NumericBits(BitsValue(ds.bytes, off, ccb))
             [] m = ALPHANUMERIC ->
                    left < ccb \/ left < ccb + AlphanumericBits(BitsValue(ds.bytes, off, ccb))
             [] m = BYTE ->
                    left < ccb \/ left < ccb + 8 * BitsValue(ds.bytes, off, ccb)
             [] m = KANJI ->
                    left < ccb \/ left < ccb + 13 * BitsValue(ds.bytes, off, ccb)
             [] OTHER -> FALSE

\* C8: a segment that needs more bits than are left ends the call with
\* FormatError; no exception leaves DecodeBitStream; only fewer than 4 bits
\* at the place of a mode indicator count as a terminator.
C8_InsufficientBitsFormatError ==
    /\ ds.status # Exception
    /\ \A i \in 1..Len(Log) :
          /\ CutShort(i) => (i = Len(Log) /\ ds.status = FormatError)
          /\ Log[i].read <=> Len(ds.bytes) - Log[i].at >= 4
          /\ ~Log[i].read => (Log[i].mode = TERMINATOR /\ i = Len(Log)
                              /\ ds.status = NoError)

\* A segment decoded, then one whose count field cannot be read: the read
\* throws, and the call returns FormatError.
C8_Witness ==
    /\ pc = "DecodeBitStream" /\ ds.status = FormatError /\ ds.result # <<>>
    /\ Len(Log) = 2 /\ CutShort(2)
    /\ Len(ds.bytes) - (Log[2].at + 4) < CharacterCountBits(Log[2].mode, version)

\* The (sequence, parity) pair the history stands for: that of the last
\* STRUCTURED_APPEND header, or -1 and -1.
ExpectedStructuredAppend ==
    LET A == Handled({STRUCTURED_APPEND}) IN
    IF A = {} THEN << -1, -1 >>
    ELSE LET last == CHOOSE j \in A : \A k \in A : k <= j
         IN  << BitsValue(ds.bytes, Log[last].at + 4, 8),
                BitsValue(ds.bytes, Log[last].at + 12, 8) >>

\* C9: after a successful DecodeBitStream the structured-append fields of the
\* result are -1 and -1 without a STRUCTURED_APPEND segment, and else the two
\* bytes of the last one's header; a header with fewer than 16 bits gives
\* FormatError.
C9_StructuredAppend ==
    /\ (pc = "DecodeBitStream" /\ ds.status = NoError) =>
          /\ << result.structuredAppendSequenceNumber,
                result.structuredAppendParity >> = ExpectedStructuredAppend
          /\ Handled({STRUCTURED_APPEND}) # {} =>
                /\ result.structuredAppendSequenceNumber \in 0..255
                /\ result.structuredAppendParity \in 0..255
    /\ \A i \in Handled({STRUCTURED_APPEND}) :
          Len(ds.bytes) - (Log[i].at + 4) < 16
              => (i = Len(Log) /\ ds.status = FormatError)

\* Two STRUCTURED_APPEND segments with different headers, decoded without
\* error.
C9_Witness ==
    /\ pc = "DecodeBitStream" /\ ds.status = NoError
    /\ Cardinality(Handled({STRUCTURED_APPEND})) = 2
    /\ BitsValue(ds.bytes, Log[1].at + 4, 16) # BitsValue(ds.bytes, Log[2].at + 4, 16)

\* The buffer with every bit after the first k complemented.
FlipAfter(bytes, k) ==
    [i \in 1..Len(bytes) |-> IF i > k THEN 1 - bytes[i] ELSE bytes[i]]

\* What the parse produced.
Parsed(d) ==
    << d.status, d.offset, d.result, d.byteSegments, d.symbolSequence, d.parityData >>

\* C10: every iteration that does not end the parse moves the bit source on
\* by at least 4 bits, so the loop ends within Len(bytes) / 4 + 1 iterations;
\* the parse ends at the first terminator, read or implied, and what it
\* produced does not depend on the bits after it.
C10_LoopTerminates ==
    /\ \A i \in 1..Len(Log) :
          /\ Completed(i) /\ Log[i].mode # TERMINATOR => NextAt(i) >= Log[i].at + 4
          /\ Log[i].mode = TERMINATOR => (i = Len(Log) /\ ds.status = NoError)
    /\ 4 * Len(Log) <= Len(ds.bytes) + 4
    /\ ds.offset <= Len(ds.bytes)
    /\ ds.status = NoError =>
          /\ Len(Log) >= 1 /\ Log[Len(Log)].mode = TERMINATOR
          /\ ds.offset = Log[Len(Log)].at + (IF Log[Len(Log)].read THEN 4 ELSE 0)
          /\ Parsed(RunLoop(BitStreamStart(FlipAfter(ds.bytes, ds.offset)),
                            version, hintedCharset))
                = Parsed(ds)

\* A parse that ended at a terminator it read, after a segment, with bits
\* left behind the terminator.
C10_Witness ==
    /\ pc = "DecodeBitStream" /\ ds.status = NoError
    /\ Len(Log) = 2 /\ Log[2].read /\ ds.result # <<>>
    /\ ds.offset < Len(ds.bytes)
====
